---- MODULE Spec2Model ----
(***************************************************************************)
(* Model of sample_app/simple_metrics_server.py: a FastAPI server that     *)
(* fabricates Prometheus exposition text.                                  *)
(*                                                                         *)
(* Representation.  A Python str is the sequence of its Unicode code       *)
(* points (integers), so that split, strip, lower and the `in` substring   *)
(* test are computed character by character; the text a sequence stands    *)
(* for is given in the comment beside it.  An Optional[str] is a record    *)
(* [some, val]: None is [some |-> FALSE], a str s is [some |-> TRUE,       *)
(* val |-> s].  A response text is the sequence of its lines (the text is  *)
(* the lines joined by newline); a line is a record holding the literal    *)
(* pieces the code's f-string is built from: the metric name, the label    *)
(* pairs in order, the value and the timestamp.  Names written out in the  *)
(* source are TLA+ strings; every text that comes from a parameter is a    *)
(* sequence of code points.  A sample value is the decimal text the        *)
(* f-string prints, or, where the f-string prints a random draw, that      *)
(* draw with its range and format.                                         *)
(* The parameters name and metricNamespace of azure_metrics are read by no *)
(* statement of the handler and are left out, as is the print of the       *)
(* request to stdout.                                                      *)
(***************************************************************************)
EXTENDS Integers, Sequences, FiniteSets, TLC

VARIABLES
    server_start_time,  \* module global, set once at import
    now,                \* int(time.time()) as the process reads it
    request,            \* the call being served: handler and query parameters
    response,           \* what the handler returned
    saved               \* observer: request and shape of an earlier response

vars == <<server_start_time, now, request, response, saved>>

(***************************************************************************)
(* Bounds                                                                  *)
(***************************************************************************)
Epoch == 1000       \* the clock value at process start
MaxTick == 2        \* seconds the clock may advance after start
MaxEntries == 2     \* comma-separated entries in a generated metric input

(***************************************************************************)
(* Python str / Optional[str]                                              *)
(***************************************************************************)
None == [some |-> FALSE, val |-> <<>>]
Some(s) == [some |-> TRUE, val |-> s]

\* truthiness of an Optional[str]: None and "" are falsy
Truthy(x) == x.some /\ x.val # <<>>

\* str(x) as an f-string field renders it: None prints as the text None
Str(x) == IF x.some THEN x.val ELSE <<78, 111, 110, 101>>  \* "None"

\* str(bool(x)) inside an f-string
BoolStr(b) == IF b THEN <<84, 114, 117, 101>> ELSE <<70, 97, 108, 115, 101>>  \* "True", "False"

\* `x or default` on an Optional[str], rendered in an f-string
OrElse(x, default) == IF Truthy(x) THEN x.val ELSE default

\* needle in hay
Contains(needle, hay) ==
    \E i \in 1..(Len(hay) - Len(needle) + 1) :
        SubSeq(hay, i, i + Len(needle) - 1) = needle

\* str.lower() of one character below U+0080
LowerAscii(c) == IF 65 <= c /\ c <= 90 THEN c + 32 ELSE c

\* the simple lower-case mappings above U+007F, as runs
\* <<first, last, stride, delta>>: every stride-th code point from first to
\* last maps to itself plus delta
LowerRuns ==
    <<<<192, 214, 1, 32>>, <<216, 222, 1, 32>>, <<256, 302, 2, 1>>,
      <<306, 310, 2, 1>>, <<313, 327, 2, 1>>, <<330, 374, 2, 1>>,
      <<376, 376, 1, -121>>, <<377, 381, 2, 1>>, <<385, 385, 1, 210>>,
      <<386, 388, 2, 1>>, <<390, 390, 1, 206>>, <<391, 391, 1, 1>>,
      <<393, 394, 1, 205>>, <<395, 395, 1, 1>>, <<398, 398, 1, 79>>,
      <<399, 399, 1, 202>>, <<400, 400, 1, 203>>, <<401, 401, 1, 1>>,
      <<403, 403, 1, 205>>, <<404, 404, 1, 207>>, <<406, 406, 1, 211>>,
      <<407, 407, 1, 209>>, <<408, 408, 1, 1>>, <<412, 412, 1, 211>>,
      <<413, 413, 1, 213>>, <<415, 415, 1, 214>>, <<416, 420, 2, 1>>,
      <<422, 422, 1, 218>>, <<423, 423, 1, 1>>, <<425, 425, 1, 218>>,
      <<428, 428, 1, 1>>, <<430, 430, 1, 218>>, <<431, 431, 1, 1>>,
      <<433, 434, 1, 217>>, <<435, 437, 2, 1>>, <<439, 439, 1, 219>>,
      <<440, 440, 1, 1>>, <<444, 444, 1, 1>>, <<452, 452, 1, 2>>,
      <<453, 453, 1, 1>>, <<455, 455, 1, 2>>, <<456, 456, 1, 1>>,
      <<458, 458, 1, 2>>, <<459, 475, 2, 1>>, <<478, 494, 2, 1>>,
      <<497, 497, 1, 2>>, <<498, 500, 2, 1>>, <<502, 502, 1, -97>>,
      <<503, 503, 1, -56>>, <<504, 542, 2, 1>>, <<544, 544, 1, -130>>,
      <<546, 562, 2, 1>>, <<570, 570, 1, 10795>>, <<571, 571, 1, 1>>,
      <<573, 573, 1, -163>>, <<574, 574, 1, 10792>>, <<577, 577, 1, 1>>,
      <<579, 579, 1, -195>>, <<580, 580, 1, 69>>, <<581, 581, 1, 71>>,
      <<582, 590, 2, 1>>, <<880, 882, 2, 1>>, <<886, 886, 1, 1>>,
      <<895, 895, 1, 116>>, <<902, 902, 1, 38>>, <<904, 906, 1, 37>>,
      <<908, 908, 1, 64>>, <<910, 911, 1, 63>>, <<913, 929, 1, 32>>,
      <<931, 939, 1, 32>>, <<975, 975, 1, 8>>, <<984, 1006, 2, 1>>,
      <<1012, 1012, 1, -60>>, <<1015, 1015, 1, 1>>, <<1017, 1017, 1, -7>>,
      <<1018, 1018, 1, 1>>, <<1021, 1023, 1, -130>>, <<1024, 1039, 1, 80>>,
      <<1040, 1071, 1, 32>>, <<1120, 1152, 2, 1>>, <<1162, 1214, 2, 1>>,
      <<1216, 1216, 1, 15>>, <<1217, 1229, 2, 1>>, <<1232, 1326, 2, 1>>,
      <<1329, 1366, 1, 48>>, <<4256, 4293, 1, 7264>>, <<4295, 4295, 1, 7264>>,
      <<4301, 4301, 1, 7264>>, <<5024, 5103, 1, 38864>>, <<5104, 5109, 1, 8>>,
      <<7312, 7354, 1, -3008>>, <<7357, 7359, 1, -3008>>, <<7680, 7828, 2, 1>>,
      <<7838, 7838, 1, -7615>>, <<7840, 7934, 2, 1>>, <<7944, 7951, 1, -8>>,
      <<7960, 7965, 1, -8>>, <<7976, 7983, 1, -8>>, <<7992, 7999, 1, -8>>,
      <<8008, 8013, 1, -8>>, <<8025, 8031, 2, -8>>, <<8040, 8047, 1, -8>>,
      <<8072, 8079, 1, -8>>, <<8088, 8095, 1, -8>>, <<8104, 8111, 1, -8>>,
      <<8120, 8121, 1, -8>>, <<8122, 8123, 1, -74>>, <<8124, 8124, 1, -9>>,
      <<8136, 8139, 1, -86>>, <<8140, 8140, 1, -9>>, <<8152, 8153, 1, -8>>,
      <<8154, 8155, 1, -100>>, <<8168, 8169, 1, -8>>, <<8170, 8171, 1, -112>>,
      <<8172, 8172, 1, -7>>, <<8184, 8185, 1, -128>>, <<8186, 8187, 1, -126>>,
      <<8188, 8188, 1, -9>>, <<8486, 8486, 1, -7517>>, <<8490, 8490, 1, -8383>>,
      <<8491, 8491, 1, -8262>>, <<8498, 8498, 1, 28>>, <<8544, 8559, 1, 16>>,
      <<8579, 8579, 1, 1>>, <<9398, 9423, 1, 26>>, <<11264, 11311, 1, 48>>,
      <<11360, 11360, 1, 1>>, <<11362, 11362, 1, -10743>>, <<11363, 11363, 1, -3814>>,
      <<11364, 11364, 1, -10727>>, <<11367, 11371, 2, 1>>, <<11373, 11373, 1, -10780>>,
      <<11374, 11374, 1, -10749>>, <<11375, 11375, 1, -10783>>, <<11376, 11376, 1, -10782>>,
      <<11378, 11378, 1, 1>>, <<11381, 11381, 1, 1>>, <<11390, 11391, 1, -10815>>,
      <<11392, 11490, 2, 1>>, <<11499, 11501, 2, 1>>, <<11506, 11506, 1, 1>>,
      <<42560, 42604, 2, 1>>, <<42624, 42650, 2, 1>>, <<42786, 42798, 2, 1>>,
      <<42802, 42862, 2, 1>>, <<42873, 42875, 2, 1>>, <<42877, 42877, 1, -35332>>,
      <<42878, 42886, 2, 1>>, <<42891, 42891, 1, 1>>, <<42893, 42893, 1, -42280>>,
      <<42896, 42898, 2, 1>>, <<42902, 42920, 2, 1>>, <<42922, 42922, 1, -42308>>,
      <<42923, 42923, 1, -42319>>, <<42924, 42924, 1, -42315>>, <<42925, 42925, 1, -42305>>,
      <<42926, 42926, 1, -42308>>, <<42928, 42928, 1, -42258>>, <<42929, 42929, 1, -42282>>,
      <<42930, 42930, 1, -42261>>, <<42931, 42931, 1, 928>>, <<42932, 42946, 2, 1>>,
      <<42948, 42948, 1, -48>>, <<42949, 42949, 1, -42307>>, <<42950, 42950, 1, -35384>>,
      <<42951, 42953, 2, 1>>, <<42960, 42960, 1, 1>>, <<42966, 42968, 2, 1>>,
      <<42997, 42997, 1, 1>>, <<65313, 65338, 1, 32>>, <<66560, 66599, 1, 40>>,
      <<66736, 66771, 1, 40>>, <<66928, 66938, 1, 39>>, <<66940, 66954, 1, 39>>,
      <<66956, 66962, 1, 39>>, <<66964, 66965, 1, 39>>, <<68736, 68786, 1, 64>>,
      <<71840, 71871, 1, 32>>, <<93760, 93791, 1, 32>>, <<125184, 125217, 1, 34>>>>

\* str.lower() of one character, outside the context rule for capital sigma.
\* U+0130 is the one character whose lower case is two code points.
LowerChar(c) ==
    IF c < 128 THEN <<LowerAscii(c)>>
    ELSE IF c = 304 THEN <<105, 775>>
    ELSE IF \E r \in 1..Len(LowerRuns) :
                /\ LowerRuns[r][1] <= c /\ c <= LowerRuns[r][2]
                /\ (c - LowerRuns[r][1]) % LowerRuns[r][3] = 0
         THEN LET r == CHOOSE r \in 1..Len(LowerRuns) :
                           /\ LowerRuns[r][1] <= c /\ c <= LowerRuns[r][2]
                           /\ (c - LowerRuns[r][1]) % LowerRuns[r][3] = 0
              IN  <<c + LowerRuns[r][4]>>
         ELSE <<c>>

\* the cased characters that are not case-ignorable, as ranges <<first, last>>
CasedRanges ==
    <<<<65, 90>>, <<97, 122>>, <<170, 170>>, <<181, 181>>,
      <<186, 186>>, <<192, 214>>, <<216, 246>>, <<248, 442>>,
      <<444, 447>>, <<452, 659>>, <<661, 687>>, <<880, 883>>,
      <<886, 887>>, <<891, 893>>, <<895, 895>>, <<902, 902>>,
      <<904, 906>>, <<908, 908>>, <<910, 929>>, <<931, 1013>>,
      <<1015, 1153>>, <<1162, 1327>>, <<1329, 1366>>, <<1376, 1416>>,
      <<4256, 4293>>, <<4295, 4295>>, <<4301, 4301>>, <<4304, 4346>>,
      <<4349, 4351>>, <<5024, 5109>>, <<5112, 5117>>, <<7296, 7304>>,
      <<7312, 7354>>, <<7357, 7359>>, <<7424, 7467>>, <<7531, 7543>>,
      <<7545, 7578>>, <<7680, 7957>>, <<7960, 7965>>, <<7968, 8005>>,
      <<8008, 8013>>, <<8016, 8023>>, <<8025, 8025>>, <<8027, 8027>>,
      <<8029, 8029>>, <<8031, 8061>>, <<8064, 8116>>, <<8118, 8124>>,
      <<8126, 8126>>, <<8130, 8132>>, <<8134, 8140>>, <<8144, 8147>>,
      <<8150, 8155>>, <<8160, 8172>>, <<8178, 8180>>, <<8182, 8188>>,
      <<8450, 8450>>, <<8455, 8455>>, <<8458, 8467>>, <<8469, 8469>>,
      <<8473, 8477>>, <<8484, 8484>>, <<8486, 8486>>, <<8488, 8488>>,
      <<8490, 8493>>, <<8495, 8500>>, <<8505, 8505>>, <<8508, 8511>>,
      <<8517, 8521>>, <<8526, 8526>>, <<8544, 8575>>, <<8579, 8580>>,
      <<9398, 9449>>, <<11264, 11387>>, <<11390, 11492>>, <<11499, 11502>>,
      <<11506, 11507>>, <<11520, 11557>>, <<11559, 11559>>, <<11565, 11565>>,
      <<42560, 42605>>, <<42624, 42651>>, <<42786, 42863>>, <<42865, 42887>>,
      <<42891, 42894>>, <<42896, 42954>>, <<42960, 42961>>, <<42963, 42963>>,
      <<42965, 42969>>, <<42997, 42998>>, <<43002, 43002>>, <<43824, 43866>>,
      <<43872, 43880>>, <<43888, 43967>>, <<64256, 64262>>, <<64275, 64279>>,
      <<65313, 65338>>, <<65345, 65370>>, <<66560, 66639>>, <<66736, 66771>>,
      <<66776, 66811>>, <<66928, 66938>>, <<66940, 66954>>, <<66956, 66962>>,
      <<66964, 66965>>, <<66967, 66977>>, <<66979, 66993>>, <<66995, 67001>>,
      <<67003, 67004>>, <<68736, 68786>>, <<68800, 68850>>, <<71840, 71903>>,
      <<93760, 93823>>, <<119808, 119892>>, <<119894, 119964>>, <<119966, 119967>>,
      <<119970, 119970>>, <<119973, 119974>>, <<119977, 119980>>, <<119982, 119993>>,
      <<119995, 119995>>, <<119997, 120003>>, <<120005, 120069>>, <<120071, 120074>>,
      <<120077, 120084>>, <<120086, 120092>>, <<120094, 120121>>, <<120123, 120126>>,
      <<120128, 120132>>, <<120134, 120134>>, <<120138, 120144>>, <<120146, 120485>>,
      <<120488, 120512>>, <<120514, 120538>>, <<120540, 120570>>, <<120572, 120596>>,
      <<120598, 120628>>, <<120630, 120654>>, <<120656, 120686>>, <<120688, 120712>>,
      <<120714, 120744>>, <<120746, 120770>>, <<120772, 120779>>, <<122624, 122633>>,
      <<122635, 122654>>, <<125184, 125251>>, <<127280, 127305>>, <<127312, 127337>>,
      <<127344, 127369>>>>

\* the case-ignorable characters, as ranges <<first, last>>
CaseIgnorableRanges ==
    <<<<39, 39>>, <<46, 46>>, <<58, 58>>, <<94, 94>>,
      <<96, 96>>, <<168, 168>>, <<173, 173>>, <<175, 175>>,
      <<180, 180>>, <<183, 184>>, <<688, 879>>, <<884, 885>>,
      <<890, 890>>, <<900, 901>>, <<903, 903>>, <<1155, 1161>>,
      <<1369, 1369>>, <<1375, 1375>>, <<1425, 1469>>, <<1471, 1471>>,
      <<1473, 1474>>, <<1476, 1477>>, <<1479, 1479>>, <<1524, 1524>>,
      <<1536, 1541>>, <<1552, 1562>>, <<1564, 1564>>, <<1600, 1600>>,
      <<1611, 1631>>, <<1648, 1648>>, <<1750, 1757>>, <<1759, 1768>>,
      <<1770, 1773>>, <<1807, 1807>>, <<1809, 1809>>, <<1840, 1866>>,
      <<1958, 1968>>, <<2027, 2037>>, <<2042, 2042>>, <<2045, 2045>>,
      <<2070, 2093>>, <<2137, 2139>>, <<2184, 2184>>, <<2192, 2193>>,
      <<2200, 2207>>, <<2249, 2306>>, <<2362, 2362>>, <<2364, 2364>>,
      <<2369, 2376>>, <<2381, 2381>>, <<2385, 2391>>, <<2402, 2403>>,
      <<2417, 2417>>, <<2433, 2433>>, <<2492, 2492>>, <<2497, 2500>>,
      <<2509, 2509>>, <<2530, 2531>>, <<2558, 2558>>, <<2561, 2562>>,
      <<2620, 2620>>, <<2625, 2626>>, <<2631, 2632>>, <<2635, 2637>>,
      <<2641, 2641>>, <<2672, 2673>>, <<2677, 2677>>, <<2689, 2690>>,
      <<2748, 2748>>, <<2753, 2757>>, <<2759, 2760>>, <<2765, 2765>>,
      <<2786, 2787>>, <<2810, 2815>>, <<2817, 2817>>, <<2876, 2876>>,
      <<2879, 2879>>, <<2881, 2884>>, <<2893, 2893>>, <<2901, 2902>>,
      <<2914, 2915>>, <<2946, 2946>>, <<3008, 3008>>, <<3021, 3021>>,
      <<3072, 3072>>, <<3076, 3076>>, <<3132, 3132>>, <<3134, 3136>>,
      <<3142, 3144>>, <<3146, 3149>>, <<3157, 3158>>, <<3170, 3171>>,
      <<3201, 3201>>, <<3260, 3260>>, <<3263, 3263>>, <<3270, 3270>>,
      <<3276, 3277>>, <<3298, 3299>>, <<3328, 3329>>, <<3387, 3388>>,
      <<3393, 3396>>, <<3405, 3405>>, <<3426, 3427>>, <<3457, 3457>>,
      <<3530, 3530>>, <<3538, 3540>>, <<3542, 3542>>, <<3633, 3633>>,
      <<3636, 3642>>, <<3654, 3662>>, <<3761, 3761>>, <<3764, 3772>>,
      <<3782, 3782>>, <<3784, 3789>>, <<3864, 3865>>, <<3893, 3893>>,
      <<3895, 3895>>, <<3897, 3897>>, <<3953, 3966>>, <<3968, 3972>>,
      <<3974, 3975>>, <<3981, 3991>>, <<3993, 4028>>, <<4038, 4038>>,
      <<4141, 4144>>, <<4146, 4151>>, <<4153, 4154>>, <<4157, 4158>>,
      <<4184, 4185>>, <<4190, 4192>>, <<4209, 4212>>, <<4226, 4226>>,
      <<4229, 4230>>, <<4237, 4237>>, <<4253, 4253>>, <<4348, 4348>>,
      <<4957, 4959>>, <<5906, 5908>>, <<5938, 5939>>, <<5970, 5971>>,
      <<6002, 6003>>, <<6068, 6069>>, <<6071, 6077>>, <<6086, 6086>>,
      <<6089, 6099>>, <<6103, 6103>>, <<6109, 6109>>, <<6155, 6159>>,
      <<6211, 6211>>, <<6277, 6278>>, <<6313, 6313>>, <<6432, 6434>>,
      <<6439, 6440>>, <<6450, 6450>>, <<6457, 6459>>, <<6679, 6680>>,
      <<6683, 6683>>, <<6742, 6742>>, <<6744, 6750>>, <<6752, 6752>>,
      <<6754, 6754>>, <<6757, 6764>>, <<6771, 6780>>, <<6783, 6783>>,
      <<6823, 6823>>, <<6832, 6862>>, <<6912, 6915>>, <<6964, 6964>>,
      <<6966, 6970>>, <<6972, 6972>>, <<6978, 6978>>, <<7019, 7027>>,
      <<7040, 7041>>, <<7074, 7077>>, <<7080, 7081>>, <<7083, 7085>>,
      <<7142, 7142>>, <<7144, 7145>>, <<7149, 7149>>, <<7151, 7153>>,
      <<7212, 7219>>, <<7222, 7223>>, <<7288, 7293>>, <<7376, 7378>>,
      <<7380, 7392>>, <<7394, 7400>>, <<7405, 7405>>, <<7412, 7412>>,
      <<7416, 7417>>, <<7468, 7530>>, <<7544, 7544>>, <<7579, 7679>>,
      <<8125, 8125>>, <<8127, 8129>>, <<8141, 8143>>, <<8157, 8159>>,
      <<8173, 8175>>, <<8189, 8190>>, <<8203, 8207>>, <<8216, 8217>>,
      <<8228, 8228>>, <<8231, 8231>>, <<8234, 8238>>, <<8288, 8292>>,
      <<8294, 8303>>, <<8305, 8305>>, <<8319, 8319>>, <<8336, 8348>>,
      <<8400, 8432>>, <<11388, 11389>>, <<11503, 11505>>, <<11631, 11631>>,
      <<11647, 11647>>, <<11744, 11775>>, <<11823, 11823>>, <<12293, 12293>>,
      <<12330, 12333>>, <<12337, 12341>>, <<12347, 12347>>, <<12441, 12446>>,
      <<12540, 12542>>, <<40981, 40981>>, <<42232, 42237>>, <<42508, 42508>>,
      <<42607, 42610>>, <<42612, 42621>>, <<42623, 42623>>, <<42652, 42655>>,
      <<42736, 42737>>, <<42752, 42785>>, <<42864, 42864>>, <<42888, 42890>>,
      <<42994, 42996>>, <<43000, 43001>>, <<43010, 43010>>, <<43014, 43014>>,
      <<43019, 43019>>, <<43045, 43046>>, <<43052, 43052>>, <<43204, 43205>>,
      <<43232, 43249>>, <<43263, 43263>>, <<43302, 43309>>, <<43335, 43345>>,
      <<43392, 43394>>, <<43443, 43443>>, <<43446, 43449>>, <<43452, 43453>>,
      <<43471, 43471>>, <<43493, 43494>>, <<43561, 43566>>, <<43569, 43570>>,
      <<43573, 43574>>, <<43587, 43587>>, <<43596, 43596>>, <<43632, 43632>>,
      <<43644, 43644>>, <<43696, 43696>>, <<43698, 43700>>, <<43703, 43704>>,
      <<43710, 43711>>, <<43713, 43713>>, <<43741, 43741>>, <<43756, 43757>>,
      <<43763, 43764>>, <<43766, 43766>>, <<43867, 43871>>, <<43881, 43883>>,
      <<44005, 44005>>, <<44008, 44008>>, <<44013, 44013>>, <<64286, 64286>>,
      <<64434, 64450>>, <<65024, 65039>>, <<65043, 65043>>, <<65056, 65071>>,
      <<65106, 65106>>, <<65109, 65109>>, <<65279, 65279>>, <<65287, 65287>>,
      <<65294, 65294>>, <<65306, 65306>>, <<65342, 65342>>, <<65344, 65344>>,
      <<65392, 65392>>, <<65438, 65439>>, <<65507, 65507>>, <<65529, 65531>>,
      <<66045, 66045>>, <<66272, 66272>>, <<66422, 66426>>, <<67456, 67461>>,
      <<67463, 67504>>, <<67506, 67514>>, <<68097, 68099>>, <<68101, 68102>>,
      <<68108, 68111>>, <<68152, 68154>>, <<68159, 68159>>, <<68325, 68326>>,
      <<68900, 68903>>, <<69291, 69292>>, <<69446, 69456>>, <<69506, 69509>>,
      <<69633, 69633>>, <<69688, 69702>>, <<69744, 69744>>, <<69747, 69748>>,
      <<69759, 69761>>, <<69811, 69814>>, <<69817, 69818>>, <<69821, 69821>>,
      <<69826, 69826>>, <<69837, 69837>>, <<69888, 69890>>, <<69927, 69931>>,
      <<69933, 69940>>, <<70003, 70003>>, <<70016, 70017>>, <<70070, 70078>>,
      <<70089, 70092>>, <<70095, 70095>>, <<70191, 70193>>, <<70196, 70196>>,
      <<70198, 70199>>, <<70206, 70206>>, <<70367, 70367>>, <<70371, 70378>>,
      <<70400, 70401>>, <<70459, 70460>>, <<70464, 70464>>, <<70502, 70508>>,
      <<70512, 70516>>, <<70712, 70719>>, <<70722, 70724>>, <<70726, 70726>>,
      <<70750, 70750>>, <<70835, 70840>>, <<70842, 70842>>, <<70847, 70848>>,
      <<70850, 70851>>, <<71090, 71093>>, <<71100, 71101>>, <<71103, 71104>>,
      <<71132, 71133>>, <<71219, 71226>>, <<71229, 71229>>, <<71231, 71232>>,
      <<71339, 71339>>, <<71341, 71341>>, <<71344, 71349>>, <<71351, 71351>>,
      <<71453, 71455>>, <<71458, 71461>>, <<71463, 71467>>, <<71727, 71735>>,
      <<71737, 71738>>, <<71995, 71996>>, <<71998, 71998>>, <<72003, 72003>>,
      <<72148, 72151>>, <<72154, 72155>>, <<72160, 72160>>, <<72193, 72202>>,
      <<72243, 72248>>, <<72251, 72254>>, <<72263, 72263>>, <<72273, 72278>>,
      <<72281, 72283>>, <<72330, 72342>>, <<72344, 72345>>, <<72752, 72758>>,
      <<72760, 72765>>, <<72767, 72767>>, <<72850, 72871>>, <<72874, 72880>>,
      <<72882, 72883>>, <<72885, 72886>>, <<73009, 73014>>, <<73018, 73018>>,
      <<73020, 73021>>, <<73023, 73029>>, <<73031, 73031>>, <<73104, 73105>>,
      <<73109, 73109>>, <<73111, 73111>>, <<73459, 73460>>, <<78896, 78904>>,
      <<92912, 92916>>, <<92976, 92982>>, <<92992, 92995>>, <<94031, 94031>>,
      <<94095, 94111>>, <<94176, 94177>>, <<94179, 94180>>, <<110576, 110579>>,
      <<110581, 110587>>, <<110589, 110590>>, <<113821, 113822>>, <<113824, 113827>>,
      <<118528, 118573>>, <<118576, 118598>>, <<119143, 119145>>, <<119155, 119170>>,
      <<119173, 119179>>, <<119210, 119213>>, <<119362, 119364>>, <<121344, 121398>>,
      <<121403, 121452>>, <<121461, 121461>>, <<121476, 121476>>, <<121499, 121503>>,
      <<121505, 121519>>, <<122880, 122886>>, <<122888, 122904>>, <<122907, 122913>>,
      <<122915, 122916>>, <<122918, 122922>>, <<123184, 123197>>, <<123566, 123566>>,
      <<123628, 123631>>, <<125136, 125142>>, <<125252, 125259>>, <<127995, 127999>>,
      <<917505, 917505>>, <<917536, 917631>>, <<917760, 917999>>>>

InRanges(ranges, c) ==
    \E r \in 1..Len(ranges) : ranges[r][1] <= c /\ c <= ranges[r][2]

\* the capital sigma at s[i] is final: a cased character before it and none
\* after it, case-ignorable characters skipped on both sides
FinalSigma(s, i) ==
    /\ \E j \in 1..(i - 1) :
           /\ InRanges(CasedRanges, s[j])
           /\ ~InRanges(CaseIgnorableRanges, s[j])
           /\ \A k \in (j + 1)..(i - 1) : InRanges(CaseIgnorableRanges, s[k])
    /\ ~\E j \in (i + 1)..Len(s) :
           /\ InRanges(CasedRanges, s[j])
           /\ ~InRanges(CaseIgnorableRanges, s[j])
           /\ \A k \in (i + 1)..(j - 1) : InRanges(CaseIgnorableRanges, s[k])

RECURSIVE LowerFrom(_, _)
LowerFrom(s, i) ==
    IF i > Len(s) THEN <<>>
    ELSE (IF s[i] = 931
          THEN <<IF FinalSigma(s, i) THEN 962 ELSE 963>>
          ELSE LowerChar(s[i]))
         \o LowerFrom(s, i + 1)

\* str.lower()
lower(s) == LowerFrom(s, 1)

\* the characters str.strip() removes: those for which str.isspace() holds
Whitespace ==
    {9, 10, 11, 12, 13, 28, 29, 30, 31, 32, 133, 160, 5760,
     8192, 8193, 8194, 8195, 8196, 8197, 8198, 8199, 8200, 8201, 8202,
     8232, 8233, 8239, 8287, 12288}

RECURSIVE lstrip(_)
lstrip(s) ==
    IF s # <<>> /\ Head(s) \in Whitespace THEN lstrip(Tail(s)) ELSE s

RECURSIVE rstrip(_)
rstrip(s) ==
    IF s # <<>> /\ s[Len(s)] \in Whitespace
    THEN rstrip(SubSeq(s, 1, Len(s) - 1))
    ELSE s

\* str.strip() with no argument
strip(s) == rstrip(lstrip(s))

\* str.split(sep) for a one-character separator (the code splits on the
\* comma, U+002C = 44): n separators give n+1 pieces
RECURSIVE split(_, _)
split(s, sep) ==
    IF \E i \in 1..Len(s) : s[i] = sep
    THEN LET i == CHOOSE j \in 1..Len(s) :
                      s[j] = sep /\ \A k \in 1..(j - 1) : s[k] # sep
         IN  <<SubSeq(s, 1, i - 1)>> \o split(SubSeq(s, i + 1, Len(s)), sep)
    ELSE <<s>>

(***************************************************************************)
(* Sample values.  The value on a sample line is either a text the code    *)
(* writes as it stands or the print of one draw of the random module.  A   *)
(* draw returns any number of its range, whatever the other draws of the   *)
(* call return, so a drawn value is held as the draw itself (function,     *)
(* range and print format) and stands for every text that draw can print:  *)
(* Returns gives the numbers a draw can return, Printed the text of each.  *)
(***************************************************************************)
RECURSIVE Pow10(_)
Pow10(n) == IF n = 0 THEN 1 ELSE 10 * Pow10(n - 1)

\* the last width decimal digits of n, with leading zeros
RECURSIVE ZeroPad(_, _)
ZeroPad(n, width) ==
    IF width = 0 THEN "" ELSE ZeroPad(n \div 10, width - 1) \o ToString(n % 10)

\* f"{x:.<places>f}" of the non-negative x = h / 10^places
Fixed(h, places) ==
    ToString(h \div Pow10(places)) \o "." \o ZeroPad(h % Pow10(places), places)

\* f"{n}" of the non-negative integer n = q * 10^zeros + r, 0 <= r < 10^zeros
Decimal(q, r, zeros) ==
    IF q = 0 THEN ToString(r) ELSE ToString(q) \o ZeroPad(r, zeros)

\* a value written as it stands
Literal(text) ==
    [fn |-> "none", text |-> text, lo |-> 0, hi |-> 0, places |-> 0, zeros |-> 0]

NoValue == Literal("")

\* f"{random.uniform(a, b):.<places>f}", a = lo / 10^places, b = hi / 10^places
uniform(lo, hi, places) ==
    [fn |-> "uniform", text |-> "", lo |-> lo, hi |-> hi, places |-> places,
     zeros |-> 0]

\* f"{random.randint(a, b)}", a = lo * 10^zeros, b = hi * 10^zeros
randint(lo, hi, zeros) ==
    [fn |-> "randint", text |-> "", lo |-> lo, hi |-> hi, places |-> 0,
     zeros |-> zeros]

\* what the draw v can return: for randint the integer q * 10^zeros + r,
\* any from a to b, both ends included; for uniform a number of [a, b]
\* that has q / 10^places as its nearest number of that many places (r = 0)
Returns(v, q, r) ==
    /\ v.fn \in {"uniform", "randint"}
    /\ 0 <= r /\ r < Pow10(v.zeros)
    /\ v.lo <= q /\ q <= v.hi
    /\ (q = v.hi => r = 0)

\* the text on the line when the draw returned that number
Printed(v, q, r) ==
    IF v.fn = "none" THEN v.text
    ELSE IF v.fn = "uniform" THEN Fixed(q, v.places)
    ELSE Decimal(q, r, v.zeros)

(***************************************************************************)
(* Lines of exposition text                                                *)
(***************************************************************************)
NoDescr == [pre |-> "", arg |-> <<>>, post |-> ""]

\* "# HELP <name> <pre><arg><post>"
Help(name, pre, arg, post) ==
    [kind |-> "HELP", name |-> name,
     descr |-> [pre |-> pre, arg |-> arg, post |-> post],
     mtype |-> "", labels |-> <<>>, value |-> NoValue, ts |-> 0]

\* "# TYPE <name> <mtype>"
Type(name, mtype) ==
    [kind |-> "TYPE", name |-> name, descr |-> NoDescr,
     mtype |-> mtype, labels |-> <<>>, value |-> NoValue, ts |-> 0]

\* "<name>{<k>="<v>",...} <value> <ts>"
Sample(name, labels, value, ts) ==
    [kind |-> "sample", name |-> name, descr |-> NoDescr,
     mtype |-> "", labels |-> labels, value |-> value, ts |-> ts]

\* ""
Blank ==
    [kind |-> "blank", name |-> "", descr |-> NoDescr,
     mtype |-> "", labels |-> <<>>, value |-> NoValue, ts |-> 0]

\* a line of fixed text
Raw(text) ==
    [kind |-> "raw", name |-> text, descr |-> NoDescr,
     mtype |-> "", labels |-> <<>>, value |-> NoValue, ts |-> 0]

(***************************************************************************)
(* generate_prometheus_metrics                                             *)
(***************************************************************************)

\* variant: metrics_lines kept at module level, so a call starts from the
\* lines of the text returned before it
LeftoverLines == IF response.kind = "text" THEN response.lines ELSE <<>>

\* metrics_lines = [] : the list a call starts from
InitialLines == <<>>

\* variant: the server_start_time sample reports the call's own timestamp
BaselineLinesStartAsNow(timestamp) ==
    <<Help("up", "Server status (1=up, 0=down)", <<>>, ""),
      Type("up", "gauge"),
      Sample("up", <<>>, Literal("1"), timestamp),
      Blank,
      Help("server_start_time", "Server start timestamp", <<>>, ""),
      Type("server_start_time", "gauge"),
      Sample("server_start_time", <<>>, Literal(ToString(timestamp)), timestamp),
      Blank,
      Help("system_cpu_usage", "CPU usage percentage", <<>>, ""),
      Type("system_cpu_usage", "gauge"),
      Sample("system_cpu_usage", <<>>, uniform(1000, 9000, 2), timestamp),
      Blank,
      Help("system_memory_used_bytes", "Memory usage in bytes", <<>>, ""),
      Type("system_memory_used_bytes", "gauge"),
      Sample("system_memory_used_bytes", <<>>,
             randint(1000, 8000, 6), timestamp),
      Blank,
      Help("http_requests_total", "HTTP requests counter", <<>>, ""),
      Type("http_requests_total", "counter"),
      Sample("http_requests_total",
             <<<<"method", <<71, 69, 84>>>>, <<"status", <<50, 48, 48>>>>>>,  \* "GET", "200"
             randint(100, 1000, 0), timestamp),
      Sample("http_requests_total",
             <<<<"method", <<80, 79, 83, 84>>>>, <<"status", <<50, 48, 48>>>>>>,  \* "POST", "200"
             randint(50, 500, 0), timestamp),
      Sample("http_requests_total",
             <<<<"method", <<71, 69, 84>>>>, <<"status", <<52, 48, 52>>>>>>,  \* "GET", "404"
             randint(1, 50, 0), timestamp),
      Blank>>

\* variant: system_memory_used_bytes emitted before system_cpu_usage
BaselineLinesMemoryFirst(timestamp) ==
    <<Help("up", "Server status (1=up, 0=down)", <<>>, ""),
      Type("up", "gauge"),
      Sample("up", <<>>, Literal("1"), timestamp),
      Blank,
      Help("server_start_time", "Server start timestamp", <<>>, ""),
      Type("server_start_time", "gauge"),
      Sample("server_start_time", <<>>, Literal(ToString(server_start_time)), timestamp),
      Blank,
      Help("system_memory_used_bytes", "Memory usage in bytes", <<>>, ""),
      Type("system_memory_used_bytes", "gauge"),
      Sample("system_memory_used_bytes", <<>>,
             randint(1000, 8000, 6), timestamp),
      Blank,
      Help("system_cpu_usage", "CPU usage percentage", <<>>, ""),
      Type("system_cpu_usage", "gauge"),
      Sample("system_cpu_usage", <<>>, uniform(1000, 9000, 2), timestamp),
      Blank,
      Help("http_requests_total", "HTTP requests counter", <<>>, ""),
      Type("http_requests_total", "counter"),
      Sample("http_requests_total",
             <<<<"method", <<71, 69, 84>>>>, <<"status", <<50, 48, 48>>>>>>,  \* "GET", "200"
             randint(100, 1000, 0), timestamp),
      Sample("http_requests_total",
             <<<<"method", <<80, 79, 83, 84>>>>, <<"status", <<50, 48, 48>>>>>>,  \* "POST", "200"
             randint(50, 500, 0), timestamp),
      Sample("http_requests_total",
             <<<<"method", <<71, 69, 84>>>>, <<"status", <<52, 48, 52>>>>>>,  \* "GET", "404"
             randint(1, 50, 0), timestamp),
      Blank>>

\* the five families every call emits, in the order of the two extend calls
BaselineLines(timestamp) ==
    <<Help("up", "Server status (1=up, 0=down)", <<>>, ""),
      Type("up", "gauge"),
      Sample("up", <<>>, Literal("1"), timestamp),
      Blank,
      Help("server_start_time", "Server start timestamp", <<>>, ""),
      Type("server_start_time", "gauge"),
      Sample("server_start_time", <<>>, Literal(ToString(server_start_time)), timestamp),
      Blank,
      Help("system_cpu_usage", "CPU usage percentage", <<>>, ""),
      Type("system_cpu_usage", "gauge"),
      Sample("system_cpu_usage", <<>>, uniform(1000, 9000, 2), timestamp),
      Blank,
      Help("system_memory_used_bytes", "Memory usage in bytes", <<>>, ""),
      Type("system_memory_used_bytes", "gauge"),
      Sample("system_memory_used_bytes", <<>>,
             randint(1000, 8000, 6), timestamp),
      Blank,
      Help("http_requests_total", "HTTP requests counter", <<>>, ""),
      Type("http_requests_total", "counter"),
      Sample("http_requests_total",
             <<<<"method", <<71, 69, 84>>>>, <<"status", <<50, 48, 48>>>>>>,  \* "GET", "200"
             randint(100, 1000, 0), timestamp),
      Sample("http_requests_total",
             <<<<"method", <<80, 79, 83, 84>>>>, <<"status", <<50, 48, 48>>>>>>,  \* "POST", "200"
             randint(50, 500, 0), timestamp),
      Sample("http_requests_total",
             <<<<"method", <<71, 69, 84>>>>, <<"status", <<52, 48, 52>>>>>>,  \* "GET", "404"
             randint(1, 50, 0), timestamp),
      Blank>>

\* variant: the virtual-machine test made before the SQL one
ResourceTypeVmFirst(target) ==
    IF Contains(<<77, 105, 99, 114, 111, 115, 111, 102, 116, 46, 67, 111, 109, 112, 117, 116, 101, 47, 118, 105, 114, 116, 117, 97, 108, 77, 97, 99, 104, 105, 110, 101, 115>>, target) THEN <<118, 105, 114, 116, 117, 97, 108, 95, 109, 97, 99, 104, 105, 110, 101>>  \* "Microsoft.Compute/virtualMachines", "virtual_machine"
    ELSE IF Contains(<<77, 105, 99, 114, 111, 115, 111, 102, 116, 46, 83, 113, 108, 47, 109, 97, 110, 97, 103, 101, 100, 73, 110, 115, 116, 97, 110, 99, 101, 115>>, target) THEN <<115, 113, 108, 95, 109, 97, 110, 97, 103, 101, 100, 95, 105, 110, 115, 116, 97, 110, 99, 101>>  \* "Microsoft.Sql/managedInstances", "sql_managed_instance"
    ELSE IF Contains(<<77, 105, 99, 114, 111, 115, 111, 102, 116, 46, 83, 116, 111, 114, 97, 103, 101, 47, 115, 116, 111, 114, 97, 103, 101, 65, 99, 99, 111, 117, 110, 116, 115>>, target) THEN <<115, 116, 111, 114, 97, 103, 101, 95, 97, 99, 99, 111, 117, 110, 116>>  \* "Microsoft.Storage/storageAccounts", "storage_account"
    ELSE <<117, 110, 107, 110, 111, 119, 110>>  \* "unknown"

\* resource_type from target: the if / elif chain
ResourceType(target) ==
    IF Contains(<<77, 105, 99, 114, 111, 115, 111, 102, 116, 46, 83, 113, 108, 47, 109, 97, 110, 97, 103, 101, 100, 73, 110, 115, 116, 97, 110, 99, 101, 115>>, target) THEN <<115, 113, 108, 95, 109, 97, 110, 97, 103, 101, 100, 95, 105, 110, 115, 116, 97, 110, 99, 101>>  \* "Microsoft.Sql/managedInstances", "sql_managed_instance"
    ELSE IF Contains(<<77, 105, 99, 114, 111, 115, 111, 102, 116, 46, 67, 111, 109, 112, 117, 116, 101, 47, 118, 105, 114, 116, 117, 97, 108, 77, 97, 99, 104, 105, 110, 101, 115>>, target) THEN <<118, 105, 114, 116, 117, 97, 108, 95, 109, 97, 99, 104, 105, 110, 101>>  \* "Microsoft.Compute/virtualMachines", "virtual_machine"
    ELSE IF Contains(<<77, 105, 99, 114, 111, 115, 111, 102, 116, 46, 83, 116, 111, 114, 97, 103, 101, 47, 115, 116, 111, 114, 97, 103, 101, 65, 99, 99, 111, 117, 110, 116, 115>>, target) THEN <<115, 116, 111, 114, 97, 103, 101, 95, 97, 99, 99, 111, 117, 110, 116>>  \* "Microsoft.Storage/storageAccounts", "storage_account"
    ELSE <<117, 110, 107, 110, 111, 119, 110>>  \* "unknown"

\* the label set of the three exact-match shapes
SqlLabels(subscription, resource_type, interval, aggregation) ==
    <<<<"subscription", subscription>>, <<"resource_type", resource_type>>,
      <<"aggregation", aggregation>>, <<"interval", interval>>>>

\* the label set of the CPU and unknown shapes
NamedLabels(subscription, resource_type, metric_name, interval, aggregation) ==
    <<<<"subscription", subscription>>, <<"resource_type", resource_type>>,
      <<"metric_name", metric_name>>,
      <<"aggregation", aggregation>>, <<"interval", interval>>>>

\* variant: the CPU substring test made before the exact names
MetricBlockCpuFirst(metric_name, sub, rt, iv, ag, timestamp) ==
    IF Contains(<<67, 80, 85>>, metric_name) \/ Contains(<<99, 112, 117>>, lower(metric_name)) THEN  \* "CPU", "cpu"
        <<Help("azure_vm_cpu_percent", "", metric_name, " from Azure API"),
          Type("azure_vm_cpu_percent", "gauge"),
          Sample("azure_vm_cpu_percent", NamedLabels(sub, rt, metric_name, iv, ag),
                 uniform(1500, 7500, 2), timestamp),
          Blank>>
    ELSE IF metric_name = <<97, 118, 103, 95, 99, 112, 117, 95, 112, 101, 114, 99, 101, 110, 116>> THEN  \* "avg_cpu_percent"
        <<Help("azure_sql_avg_cpu_percent",
               "Average CPU percentage from Azure API", <<>>, ""),
          Type("azure_sql_avg_cpu_percent", "gauge"),
          Sample("azure_sql_avg_cpu_percent", SqlLabels(sub, rt, iv, ag),
                 uniform(2000, 8000, 2), timestamp),
          Blank>>
    ELSE IF metric_name = <<118, 105, 114, 116, 117, 97, 108, 95, 99, 111, 114, 101, 95, 99, 111, 117, 110, 116>> THEN  \* "virtual_core_count"
        <<Help("azure_sql_virtual_core_count",
               "Virtual core count from Azure API", <<>>, ""),
          Type("azure_sql_virtual_core_count", "gauge"),
          Sample("azure_sql_virtual_core_count", SqlLabels(sub, rt, iv, ag),
                 randint(2, 16, 0), timestamp),
          Blank>>
    ELSE IF metric_name = <<109, 101, 109, 111, 114, 121, 95, 117, 115, 97, 103, 101, 95, 112, 101, 114, 99, 101, 110, 116>> THEN  \* "memory_usage_percent"
        <<Help("azure_sql_memory_usage_percent",
               "Memory usage percentage from Azure API", <<>>, ""),
          Type("azure_sql_memory_usage_percent", "gauge"),
          Sample("azure_sql_memory_usage_percent", SqlLabels(sub, rt, iv, ag),
                 uniform(4000, 8500, 2), timestamp),
          Blank>>
    ELSE
        <<Help("azure_unknown_metric", "Unknown metric ", metric_name, " from Azure API"),
          Type("azure_unknown_metric", "gauge"),
          Sample("azure_unknown_metric", NamedLabels(sub, rt, metric_name, iv, ag),
                 uniform(0, 10000, 2), timestamp),
          Blank>>

\* one pass of the for loop body, on the already stripped metric_name;
\* sub, rt, iv, ag are the label texts
MetricBlock(metric_name, sub, rt, iv, ag, timestamp) ==
    IF metric_name = <<97, 118, 103, 95, 99, 112, 117, 95, 112, 101, 114, 99, 101, 110, 116>> THEN  \* "avg_cpu_percent"
        <<Help("azure_sql_avg_cpu_percent",
               "Average CPU percentage from Azure API", <<>>, ""),
          Type("azure_sql_avg_cpu_percent", "gauge"),
          Sample("azure_sql_avg_cpu_percent", SqlLabels(sub, rt, iv, ag),
                 uniform(2000, 8000, 2), timestamp),
          Blank>>
    ELSE IF metric_name = <<118, 105, 114, 116, 117, 97, 108, 95, 99, 111, 114, 101, 95, 99, 111, 117, 110, 116>> THEN  \* "virtual_core_count"
        <<Help("azure_sql_virtual_core_count",
               "Virtual core count from Azure API", <<>>, ""),
          Type("azure_sql_virtual_core_count", "gauge"),
          Sample("azure_sql_virtual_core_count", SqlLabels(sub, rt, iv, ag),
                 randint(2, 16, 0), timestamp),
          Blank>>
    ELSE IF metric_name = <<109, 101, 109, 111, 114, 121, 95, 117, 115, 97, 103, 101, 95, 112, 101, 114, 99, 101, 110, 116>> THEN  \* "memory_usage_percent"
        <<Help("azure_sql_memory_usage_percent",
               "Memory usage percentage from Azure API", <<>>, ""),
          Type("azure_sql_memory_usage_percent", "gauge"),
          Sample("azure_sql_memory_usage_percent", SqlLabels(sub, rt, iv, ag),
                 uniform(4000, 8500, 2), timestamp),
          Blank>>
    ELSE IF Contains(<<67, 80, 85>>, metric_name) \/ Contains(<<99, 112, 117>>, lower(metric_name)) THEN  \* "CPU", "cpu"
        <<Help("azure_vm_cpu_percent", "", metric_name, " from Azure API"),
          Type("azure_vm_cpu_percent", "gauge"),
          Sample("azure_vm_cpu_percent", NamedLabels(sub, rt, metric_name, iv, ag),
                 uniform(1500, 7500, 2), timestamp),
          Blank>>
    ELSE
        <<Help("azure_unknown_metric", "Unknown metric ", metric_name, " from Azure API"),
          Type("azure_unknown_metric", "gauge"),
          Sample("azure_unknown_metric", NamedLabels(sub, rt, metric_name, iv, ag),
                 uniform(0, 10000, 2), timestamp),
          Blank>>

\* variant: entries that are empty after trimming dropped from the list
MetricNamesSkipEmpty(metric) ==
    IF metric # <<>> THEN SelectSeq(split(metric, 44), LAMBDA e : strip(e) # <<>>)
    ELSE <<>>

\* metric.split(",") if metric else []
MetricNames(metric) == IF metric # <<>> THEN split(metric, 44) ELSE <<>>

\* the for loop over metric_names: passes i..Len(metric_names), in order
RECURSIVE MetricBlocks(_, _, _, _, _, _, _)
MetricBlocks(metric_names, i, sub, rt, iv, ag, timestamp) ==
    IF i > Len(metric_names) THEN <<>>
    ELSE MetricBlock(strip(metric_names[i]), sub, rt, iv, ag, timestamp)
         \o MetricBlocks(metric_names, i + 1, sub, rt, iv, ag, timestamp)

\* the exporter metadata appended after the loop
ExporterMetadata(sub, timestamp) ==
    <<Help("azure_exporter_scrape_duration_seconds",
           "Time spent scraping Azure API", <<>>, ""),
      Type("azure_exporter_scrape_duration_seconds", "gauge"),
      Sample("azure_exporter_scrape_duration_seconds", <<<<"subscription", sub>>>>,
             uniform(100, 2000, 3), timestamp),
      Blank,
      Help("azure_exporter_scrape_success",
           "Whether the Azure API scrape was successful", <<>>, ""),
      Type("azure_exporter_scrape_success", "gauge"),
      Sample("azure_exporter_scrape_success", <<<<"subscription", sub>>>>,
             Literal("1"), timestamp),
      Blank>>

\* the lines "\n".join turns into the returned text; timestamp is read from
\* the clock once, at the top of the call
generate_prometheus_metrics(subscription, target, metric, interval, aggregation) ==
    LET timestamp == now
        base == InitialLines \o BaselineLines(timestamp)
    IN  IF Truthy(subscription) /\ Truthy(target) /\ Truthy(metric) THEN
            LET resource_type == ResourceType(target.val)
                metric_names == MetricNames(metric.val)
            IN  base
                \o MetricBlocks(metric_names, 1, subscription.val, resource_type,
                                Str(interval), Str(aggregation), timestamp)
                \o ExporterMetadata(subscription.val, timestamp)
        ELSE base

(***************************************************************************)
(* Responses and requests                                                  *)
(***************************************************************************)
TextResponse(lines) == [kind |-> "text", lines |-> lines, json |-> <<>>]
JsonResponse(obj) == [kind |-> "json", lines |-> <<>>, json |-> <<obj>>]
NoResponse == [kind |-> "none", lines |-> <<>>, json |-> <<>>]

Query(subscription, target, metric, interval, aggregation) ==
    [subscription |-> subscription, target |-> target, metric |-> metric,
     interval |-> interval, aggregation |-> aggregation]

NoQuery == Query(None, None, None, None, None)

Request(handler, query) == [handler |-> handler, query |-> query]

\* Query(default): an absent parameter takes the default, a supplied one
\* (the empty string included) is passed as it is
QueryDefault(q, default) == IF q.some THEN q ELSE Some(default)

(***************************************************************************)
(* Handlers                                                                *)
(***************************************************************************)
root ==
    TextResponse(
    <<Raw("OpenAgent Test Metrics Server (FastAPI)"),
      Raw(""),
      Raw("This server simulates azure-metrics-exporter functionality for testing OpenAgent's URL parameter support."),
      Raw(""),
      Raw("Available endpoints:"),
      Raw("- GET /metrics - Prometheus format metrics (with optional URL parameters)"),
      Raw("- GET /probe/metrics/resource - Azure-style metrics endpoint (requires parameters)"),
      Raw("- GET /health - Health check"),
      Raw("- GET / - This welcome message"),
      Raw(""),
      Raw("Example with parameters:"),
      Raw("/probe/metrics/resource?subscription=test-sub&target=Microsoft.Sql/test&metric=avg_cpu_percent,virtual_core_count&interval=PT1M&aggregation=average"),
      Raw("")>>)

health == TextResponse(<<Raw("OK")>>)

\* variant: /metrics calling the generator with stand-in resource parameters
metricsWithDefaults ==
    TextResponse(generate_prometheus_metrics(
        Some(<<100, 101, 102, 97, 117, 108, 116>>), Some(<<77, 105, 99, 114, 111, 115, 111, 102, 116, 46, 83, 113, 108, 47, 109, 97, 110, 97, 103, 101, 100, 73, 110, 115, 116, 97, 110, 99, 101, 115>>),  \* "default", "Microsoft.Sql/managedInstances"
        Some(<<97, 118, 103, 95, 99, 112, 117, 95, 112, 101, 114, 99, 101, 110, 116>>), None, None))  \* "avg_cpu_percent"

\* the /metrics handler: the generator called with no argument
metrics ==
    TextResponse(generate_prometheus_metrics(None, None, None, None, None))

\* variant: the early return taken only when all three are missing
RequiredMissingAll(subscription, target, metric) ==
    ~Truthy(subscription) /\ ~Truthy(target) /\ ~Truthy(metric)

\* the condition of the early return of azure_metrics
RequiredMissing(subscription, target, metric) ==
    ~Truthy(subscription) \/ ~Truthy(target) \/ ~Truthy(metric)

\* variant: the info line using the error line's placeholder, missing
ErrorLinesSamePlaceholder(subscription, target, metric, interval, aggregation, error_timestamp) ==
    <<Help("azure_exporter_error", "Error in Azure exporter", <<>>, ""),
      Type("azure_exporter_error", "gauge"),
      Sample("azure_exporter_error",
             <<<<"reason", <<109, 105, 115, 115, 105, 110, 103, 95, 114, 101, 113, 117, 105, 114, 101, 100, 95, 112, 97, 114, 97, 109, 101, 116, 101, 114, 115>>>>,  \* "missing_required_parameters"
               <<"subscription", OrElse(subscription, <<109, 105, 115, 115, 105, 110, 103>>)>>,  \* "missing"
               <<"target_provided", BoolStr(Truthy(target))>>,
               <<"metric_provided", BoolStr(Truthy(metric))>>>>,
             Literal("1"), error_timestamp),
      Blank,
      Help("azure_exporter_request_info", "Information about the request", <<>>, ""),
      Type("azure_exporter_request_info", "gauge  "),
      Sample("azure_exporter_request_info",
             <<<<"subscription", OrElse(subscription, <<109, 105, 115, 115, 105, 110, 103>>)>>,  \* "missing"
               <<"has_target", BoolStr(Truthy(target))>>,
               <<"has_metric", BoolStr(Truthy(metric))>>,
               <<"interval", Str(interval)>>,
               <<"aggregation", Str(aggregation)>>>>,
             Literal("0"), error_timestamp),
      Blank>>

\* the error_response f-string, line by line
ErrorLines(subscription, target, metric, interval, aggregation, error_timestamp) ==
    <<Help("azure_exporter_error", "Error in Azure exporter", <<>>, ""),
      Type("azure_exporter_error", "gauge"),
      Sample("azure_exporter_error",
             <<<<"reason", <<109, 105, 115, 115, 105, 110, 103, 95, 114, 101, 113, 117, 105, 114, 101, 100, 95, 112, 97, 114, 97, 109, 101, 116, 101, 114, 115>>>>,  \* "missing_required_parameters"
               <<"subscription", OrElse(subscription, <<109, 105, 115, 115, 105, 110, 103>>)>>,  \* "missing"
               <<"target_provided", BoolStr(Truthy(target))>>,
               <<"metric_provided", BoolStr(Truthy(metric))>>>>,
             Literal("1"), error_timestamp),
      Blank,
      Help("azure_exporter_request_info", "Information about the request", <<>>, ""),
      Type("azure_exporter_request_info", "gauge  "),
      Sample("azure_exporter_request_info",
             <<<<"subscription", OrElse(subscription, <<110, 111, 110, 101>>)>>,  \* "none"
               <<"has_target", BoolStr(Truthy(target))>>,
               <<"has_metric", BoolStr(Truthy(metric))>>,
               <<"interval", Str(interval)>>,
               <<"aggregation", Str(aggregation)>>>>,
             Literal("0"), error_timestamp),
      Blank>>

\* the handler body, on the parameters as FastAPI binds them
azure_metrics(subscription, target, metric, interval, aggregation) ==
    IF RequiredMissing(subscription, target, metric)
    THEN TextResponse(ErrorLines(subscription, target, metric, interval, aggregation, now))
    ELSE TextResponse(generate_prometheus_metrics(
             subscription, target, metric, interval, aggregation))

\* variant: sum(1 for p in [...] if p), empty strings not counted
ParameterCountNonEmpty(ps) == Cardinality({i \in 1..Len(ps) : Truthy(ps[i])})

\* sum(1 for p in [...] if p is not None)
ParameterCount(ps) == Cardinality({i \in 1..Len(ps) : ps[i].some})

debug_params(subscription, target, metric, interval, aggregation) ==
    JsonResponse(
        [received_parameters |->
             Query(subscription, target, metric, interval, aggregation),
         parameter_count |->
             ParameterCount(<<subscription, target, metric, interval, aggregation>>),
         required_params_present |->
             Truthy(subscription) /\ Truthy(target) /\ Truthy(metric),
         timestamp |-> now])

(***************************************************************************)
(* Observer: the structure of a response, with the numeric sample values   *)
(* and the timestamps blanked, and the memory of one earlier response      *)
(* (which request, when, and the structure of what was returned).          *)
(***************************************************************************)
Shape(resp) ==
    [kind |-> resp.kind,
     lines |-> [i \in 1..Len(resp.lines) |->
                    [resp.lines[i] EXCEPT !.value = NoValue, !.ts = 0]],
     json |-> [i \in 1..Len(resp.json) |->
                    [resp.json[i] EXCEPT !.timestamp = 0]]]

NoSaved == [taken |-> FALSE, at |-> 0, request |-> Request("none", NoQuery),
            shape |-> Shape(NoResponse)]

Remember(req, resp) ==
    saved' \in {saved, [taken |-> TRUE, at |-> now, request |-> req,
                         shape |-> Shape(resp)]}

(***************************************************************************)
(* The server: one action per route, the clock ticking between requests    *)
(***************************************************************************)
SubS == <<83>>  \* "S"
SqlTarget == <<77, 105, 99, 114, 111, 115, 111, 102, 116, 46, 83, 113, 108, 47, 109, 97, 110, 97, 103, 101, 100, 73, 110, 115, 116, 97, 110, 99, 101, 115, 47, 120>>  \* "Microsoft.Sql/managedInstances/x"
PT5M == <<80, 84, 53, 77>>  \* "PT5M"
Maximum == <<109, 97, 120, 105, 109, 117, 109>>  \* "maximum"

ServerSubscriptions == {None, Some(SubS)}
ServerTargets == {None, Some(SqlTarget)}
ServerMetrics == {None, Some(<<>>), Some(<<97, 118, 103, 95, 99, 112, 117, 95, 112, 101, 114, 99, 101, 110, 116, 44, 32, 70, 111, 111, 67, 80, 85, 66, 97, 114, 44>>)}  \* "avg_cpu_percent, FooCPUBar,"
ServerOptions == {<<None, None>>, <<Some(PT5M), Some(Maximum)>>}

ServerProbeQueries ==
    {Query(s, t, m, o[1], o[2]) :
        s \in ServerSubscriptions, t \in ServerTargets,
        m \in ServerMetrics, o \in ServerOptions}

ServerDebugQueries ==
    {NoQuery,
     Query(Some(<<97>>), Some(<<98>>), None, None, None),  \* "a", "b"
     Query(Some(<<97>>), Some(<<>>), Some(<<99>>), None, Some(<<>>)),  \* "a", "c"
     Query(Some(<<97>>), Some(<<98>>), Some(<<99>>), Some(PT5M), Some(Maximum))}  \* "a", "b", "c"

Init ==
    /\ now = Epoch
    /\ server_start_time = now
    /\ request = Request("none", NoQuery)
    /\ response = NoResponse
    /\ saved = NoSaved

Tick ==
    /\ now < server_start_time + MaxTick
    /\ now' = now + 1
    /\ UNCHANGED <<server_start_time, request, response, saved>>

GetRoot ==
    /\ request' = Request("root", NoQuery)
    /\ response' = root
    /\ Remember(request', response')
    /\ UNCHANGED <<server_start_time, now>>

GetHealth ==
    /\ request' = Request("health", NoQuery)
    /\ response' = health
    /\ Remember(request', response')
    /\ UNCHANGED <<server_start_time, now>>

GetMetrics ==
    /\ request' = Request("metrics", NoQuery)
    /\ response' = metrics
    /\ Remember(request', response')
    /\ UNCHANGED <<server_start_time, now>>

\* the response of /probe/metrics/resource to the query q
ProbeResponse(q) ==
    azure_metrics(q.subscription, q.target, q.metric,
                  QueryDefault(q.interval, <<80, 84, 49, 77>>),  \* "PT1M"
                  QueryDefault(q.aggregation, <<97, 118, 101, 114, 97, 103, 101>>))  \* "average"

GetProbeMetricsResource ==
    /\ \E q \in ServerProbeQueries :
          /\ request' = Request("azure_metrics", q)
          /\ response' = ProbeResponse(q)
    /\ Remember(request', response')
    /\ UNCHANGED <<server_start_time, now>>

\* the response of /debug/params to the query q
DebugResponse(q) ==
    debug_params(q.subscription, q.target, q.metric, q.interval, q.aggregation)

GetDebugParams ==
    /\ \E q \in ServerDebugQueries :
          /\ request' = Request("debug_params", q)
          /\ response' = DebugResponse(q)
    /\ Remember(request', response')
    /\ UNCHANGED <<server_start_time, now>>

Next ==
    \/ Tick
    \/ GetRoot
    \/ GetHealth
    \/ GetMetrics
    \/ GetProbeMetricsResource
    \/ GetDebugParams

Spec == Init /\ [][Next]_vars

(***************************************************************************)
(* Single calls: the generator and the two parameterised handlers applied  *)
(* to inputs drawn from wide sets.                                         *)
(***************************************************************************)
Subscriptions == {None, Some(<<>>), Some(SubS)}

\* targets that select each resource type, alone and two at a time, and
\* one that differs from a known path only in case
Targets ==
    {Some(SqlTarget),
     Some(<<77, 105, 99, 114, 111, 115, 111, 102, 116, 46, 67, 111, 109, 112, 117, 116, 101, 47, 118, 105, 114, 116, 117, 97, 108, 77, 97, 99, 104, 105, 110, 101, 115, 47, 120>>),  \* "Microsoft.Compute/virtualMachines/x"
     Some(<<47, 115, 117, 98, 115, 99, 114, 105, 112, 116, 105, 111, 110, 115, 47, 83, 47, 112, 114, 111, 118, 105, 100, 101, 114, 115, 47, 77, 105, 99, 114, 111, 115, 111, 102, 116, 46, 83, 116, 111, 114, 97, 103, 101, 47, 115, 116, 111, 114, 97, 103, 101, 65, 99, 99, 111, 117, 110, 116, 115, 47, 120>>),  \* "/subscriptions/S/providers/Microsoft.Storage/storageAccounts/x"
     Some(<<77, 105, 99, 114, 111, 115, 111, 102, 116, 46, 67, 111, 109, 112, 117, 116, 101, 47, 118, 105, 114, 116, 117, 97, 108, 77, 97, 99, 104, 105, 110, 101, 115, 47, 77, 105, 99, 114, 111, 115, 111, 102, 116, 46, 83, 113, 108, 47, 109, 97, 110, 97, 103, 101, 100, 73, 110, 115, 116, 97, 110, 99, 101, 115>>),  \* "Microsoft.Compute/virtualMachines/Microsoft.Sql/managedInstances"
     Some(<<77, 105, 99, 114, 111, 115, 111, 102, 116, 46, 83, 116, 111, 114, 97, 103, 101, 47, 115, 116, 111, 114, 97, 103, 101, 65, 99, 99, 111, 117, 110, 116, 115, 47, 77, 105, 99, 114, 111, 115, 111, 102, 116, 46, 67, 111, 109, 112, 117, 116, 101, 47, 118, 105, 114, 116, 117, 97, 108, 77, 97, 99, 104, 105, 110, 101, 115>>),  \* "Microsoft.Storage/storageAccounts/Microsoft.Compute/virtualMachines"
     Some(<<109, 105, 99, 114, 111, 115, 111, 102, 116, 46, 115, 113, 108, 47, 109, 97, 110, 97, 103, 101, 100, 105, 110, 115, 116, 97, 110, 99, 101, 115, 47, 120>>)}  \* "microsoft.sql/managedinstances/x"

\* the entries a metric input is made of: the exact names, bare and padded
\* with whitespace of several kinds (space, tab, form feed, no-break space,
\* line tabulation), names that differ from them in case or by one more
\* character, names with CPU in them, and entries that trim to nothing
Entries ==
    {<<97, 118, 103, 95, 99, 112, 117, 95, 112, 101, 114, 99, 101, 110, 116>>,  \* "avg_cpu_percent"
     <<32, 97, 118, 103, 95, 99, 112, 117, 95, 112, 101, 114, 99, 101, 110, 116, 9>>,  \* " avg_cpu_percent\x09"
     <<118, 105, 114, 116, 117, 97, 108, 95, 99, 111, 114, 101, 95, 99, 111, 117, 110, 116>>,  \* "virtual_core_count"
     <<12, 32, 109, 101, 109, 111, 114, 121, 95, 117, 115, 97, 103, 101, 95, 112, 101, 114, 99, 101, 110, 116, 160>>,  \* "\x0c memory_usage_percent\xa0"
     <<65, 86, 71, 95, 67, 80, 85, 95, 80, 69, 82, 67, 69, 78, 84>>,  \* "AVG_CPU_PERCENT"
     <<70, 111, 111, 67, 80, 85, 66, 97, 114>>,  \* "FooCPUBar"
     <<201, 67, 112, 85>>,  \* "\xc9CpU"
     <<116, 111, 116, 97, 108, 108, 121, 95, 117, 110, 107, 110, 111, 119, 110, 95, 116, 104, 105, 110, 103>>,  \* "totally_unknown_thing"
     <<109, 101, 109, 111, 114, 121, 95, 117, 115, 97, 103, 101, 95, 112, 101, 114, 99, 101, 110, 116, 120>>,  \* "memory_usage_percentx"
     <<32, 11>>,  \* " \x0b"
     <<>>}

\* ",".join(es)
RECURSIVE Join(_)
Join(es) ==
    IF Len(es) = 0 THEN <<>>
    ELSE IF Len(es) = 1 THEN es[1]
    ELSE es[1] \o <<44>> \o Join(Tail(es))

EntryLists == UNION {[1..n -> Entries] : n \in 1..MaxEntries}

Metrics == {Some(Join(es)) : es \in EntryLists}

Options == {None, Some(<<>>), Some(PT5M)}

\* calls of the generator: every target with every metric under a
\* subscription, and every way one of the three can be None, empty or given
GenerateInputs ==
    {Query(Some(SubS), t, m, o[1], o[2]) :
        t \in Targets, m \in Metrics,
        o \in {<<None, None>>, <<Some(PT5M), Some(Maximum)>>}}
    \cup
    {Query(s, t, m, None, Some(Maximum)) :
        s \in Subscriptions,
        t \in {None, Some(<<>>), Some(<<77, 105, 99, 114, 111, 115, 111, 102, 116, 46, 83, 113, 108, 47, 116, 101, 115, 116>>)},  \* "Microsoft.Sql/test"
        m \in {None, Some(<<>>), Some(<<97, 118, 103, 95, 99, 112, 117, 95, 112, 101, 114, 99, 101, 110, 116>>)}}  \* "avg_cpu_percent"

ProbeInputs ==
    {Query(s, t, m, i, a) :
        s \in Subscriptions,
        t \in {None, Some(<<>>), Some(SqlTarget), Some(<<120>>)},  \* "x"
        m \in {None, Some(<<>>), Some(<<97, 118, 103, 95, 99, 112, 117, 95, 112, 101, 114, 99, 101, 110, 116>>), Some(<<12, 97, 118, 103, 95, 99, 112, 117, 95, 112, 101, 114, 99, 101, 110, 116>>), Some(<<44>>)},  \* "avg_cpu_percent", "\x0cavg_cpu_percent", ","
        i \in Options, a \in {None, Some(<<>>), Some(Maximum)}}

DebugInputs ==
    {Query(s, t, m, i, a) :
        s \in Subscriptions,
        t \in {None, Some(<<>>), Some(<<98>>)},  \* "b"
        m \in {None, Some(<<>>), Some(<<99>>)},  \* "c"
        i \in Options, a \in {None, Some(<<>>), Some(Maximum)}}

InitCall ==
    /\ server_start_time = Epoch
    /\ now = server_start_time + MaxTick
    /\ request \in {Request("generate_prometheus_metrics", q) : q \in GenerateInputs}
                   \cup {Request("azure_metrics", q) : q \in ProbeInputs}
                   \cup {Request("debug_params", q) : q \in DebugInputs}
    /\ response = NoResponse
    /\ saved = NoSaved

CallGenerate ==
    /\ request.handler = "generate_prometheus_metrics"
    /\ response' = TextResponse(generate_prometheus_metrics(
           request.query.subscription, request.query.target, request.query.metric,
           request.query.interval, request.query.aggregation))
    /\ UNCHANGED <<server_start_time, now, request, saved>>

CallAzureMetrics ==
    /\ request.handler = "azure_metrics"
    /\ response' = ProbeResponse(request.query)
    /\ UNCHANGED <<server_start_time, now, request, saved>>

CallDebugParams ==
    /\ request.handler = "debug_params"
    /\ response' = DebugResponse(request.query)
    /\ UNCHANGED <<server_start_time, now, request, saved>>

NextCall ==
    \/ CallGenerate
    \/ CallAzureMetrics
    \/ CallDebugParams

SpecCall == InitCall /\ [][NextCall]_vars

(***************************************************************************)
(* Properties                                                              *)
(***************************************************************************)

\* reading a response text
HasSample(lines, name) ==
    \E i \in 1..Len(lines) : lines[i].kind = "sample" /\ lines[i].name = name

HelpNames(lines) ==
    LET helps == SelectSeq(lines, LAMBDA l : l.kind = "HELP")
    IN  [i \in 1..Len(helps) |-> helps[i].name]

LabelKeys(line) == [i \in 1..Len(line.labels) |-> line.labels[i][1]]

LabelValue(line, key) ==
    line.labels[CHOOSE i \in 1..Len(line.labels) : line.labels[i][1] = key][2]

NonEmpty(x) == x.some /\ Len(x.val) > 0

AllRequired(q) == NonEmpty(q.subscription) /\ NonEmpty(q.target) /\ NonEmpty(q.metric)

BaselineFamilies ==
    <<"up", "server_start_time", "system_cpu_usage",
      "system_memory_used_bytes", "http_requests_total">>

\* the metric names of the resource section: all those that begin with azure_
PerMetricNames ==
    {"azure_sql_avg_cpu_percent", "azure_sql_virtual_core_count",
     "azure_sql_memory_usage_percent", "azure_vm_cpu_percent", "azure_unknown_metric"}

MetadataNames ==
    {"azure_exporter_scrape_duration_seconds", "azure_exporter_scrape_success"}

ErrorNames == {"azure_exporter_error", "azure_exporter_request_info"}

AzureNames == PerMetricNames \cup MetadataNames \cup ErrorNames

Served(handler) == request.handler = handler /\ response.kind # "none"

--------------------------------------------------------------------------
\* C1: a request to /probe/metrics/resource with subscription, target and
\* metric all non-empty gets the generated text (the baseline families, at
\* least one per-metric family, azure_exporter_scrape_success) and no error
\* line; any other request gets the error block (azure_exporter_error and
\* azure_exporter_request_info), none of the generator's families and no
\* azure_exporter_scrape_success.  Exactly one of azure_exporter_error and
\* azure_exporter_scrape_success is in every response.
C1_ProbeDispatch ==
    Served("azure_metrics") =>
        LET lines == response.lines
            baseline == \A i \in 1..Len(BaselineFamilies) :
                            HasSample(lines, BaselineFamilies[i])
            resource == \E n \in PerMetricNames : HasSample(lines, n)
            success == HasSample(lines, "azure_exporter_scrape_success")
            error == HasSample(lines, "azure_exporter_error")
            info == HasSample(lines, "azure_exporter_request_info")
        IN  /\ response.kind = "text"
            /\ AllRequired(request.query) =>
                   baseline /\ resource /\ success /\ ~error /\ ~info
            /\ ~AllRequired(request.query) =>
                   /\ error /\ info /\ ~success
                   /\ HelpNames(lines) =
                          <<"azure_exporter_error", "azure_exporter_request_info">>
            /\ error # success

\* both sides of the dispatch are taken: this state is an error block for a
\* request that lacks only the subscription
C1_Witness ==
    /\ Served("azure_metrics")
    /\ ~NonEmpty(request.query.subscription)
    /\ NonEmpty(request.query.target)
    /\ NonEmpty(request.query.metric)
    /\ HasSample(response.lines, "azure_exporter_error")

--------------------------------------------------------------------------
\* C2: every response to /metrics, wherever it falls in a sequence of
\* requests, holds the sample line `up 1 <ts>` and a server_start_time
\* sample line, and every metric line of it belongs to one of the five
\* baseline families, so none is an azure_ line.
C2_MetricsBaselineOnly ==
    Served("metrics") =>
        LET lines == response.lines
        IN  /\ response.kind = "text"
            /\ \E i \in 1..Len(lines) :
                   /\ lines[i].kind = "sample" /\ lines[i].name = "up"
                   /\ lines[i].labels = <<>> /\ lines[i].value = Literal("1")
            /\ \E i \in 1..Len(lines) :
                   /\ lines[i].kind = "sample" /\ lines[i].name = "server_start_time"
                   /\ lines[i].labels = <<>>
            /\ \A i \in 1..Len(lines) :
                   /\ lines[i].name \notin AzureNames
                   /\ lines[i].kind # "blank" =>
                          \E k \in 1..Len(BaselineFamilies) :
                              lines[i].name = BaselineFamilies[k]

\* /metrics served after a successful resource probe was served earlier
C2_Witness ==
    /\ Served("metrics")
    /\ saved.taken
    /\ saved.request.handler = "azure_metrics"
    /\ saved.at < now
    /\ HasSample(saved.shape.lines, "azure_exporter_scrape_success")

--------------------------------------------------------------------------
\* C3: no step changes server_start_time, and the value on the
\* server_start_time sample line of every text a step returns is the value
\* captured at start, whatever the clock reads at that step.
C3_StartTimeFixed ==
    [][/\ server_start_time' = server_start_time
       /\ \A i \in 1..Len(response'.lines) :
              (response'.lines[i].kind = "sample"
                 /\ response'.lines[i].name = "server_start_time")
              => response'.lines[i].value = Literal(ToString(server_start_time))]_vars

\* a generator output made after the clock advanced: the line's timestamp is
\* later than the start value it reports
C3_Witness ==
    /\ now > server_start_time
    /\ \E i \in 1..Len(response.lines) :
           /\ response.lines[i].kind = "sample"
           /\ response.lines[i].name = "server_start_time"
           /\ response.lines[i].ts = now
           /\ response.lines[i].value = Literal(ToString(server_start_time))

--------------------------------------------------------------------------
\* kind and name of every line of the baseline section, in order
BaselineSkeleton ==
    <<<<"HELP", "up">>, <<"TYPE", "up">>, <<"sample", "up">>, <<"blank", "">>,
      <<"HELP", "server_start_time">>, <<"TYPE", "server_start_time">>,
      <<"sample", "server_start_time">>, <<"blank", "">>,
      <<"HELP", "system_cpu_usage">>, <<"TYPE", "system_cpu_usage">>,
      <<"sample", "system_cpu_usage">>, <<"blank", "">>,
      <<"HELP", "system_memory_used_bytes">>, <<"TYPE", "system_memory_used_bytes">>,
      <<"sample", "system_memory_used_bytes">>, <<"blank", "">>,
      <<"HELP", "http_requests_total">>, <<"TYPE", "http_requests_total">>,
      <<"sample", "http_requests_total">>, <<"sample", "http_requests_total">>,
      <<"sample", "http_requests_total">>, <<"blank", "">>>>

BaselineLen == Len(BaselineSkeleton)

HttpLabelSets ==
    <<<<<<"method", <<71, 69, 84>>>>, <<"status", <<50, 48, 48>>>>>>,  \* "GET", "200"
      <<<<"method", <<80, 79, 83, 84>>>>, <<"status", <<50, 48, 48>>>>>>,  \* "POST", "200"
      <<<<"method", <<71, 69, 84>>>>, <<"status", <<52, 48, 52>>>>>>>>  \* "GET", "404"

\* C4: every output of the generator begins with the five baseline
\* families in the order up, server_start_time, system_cpu_usage,
\* system_memory_used_bytes, http_requests_total, each a HELP line, a TYPE
\* line, then its sample lines; http_requests_total has exactly the three
\* samples {GET,200}, {POST,200}, {GET,404} in that order; and every line
\* after the baseline section that names a metric names an azure_ one.
C4_BaselineFirst ==
    Served("generate_prometheus_metrics") =>
        LET lines == response.lines
            https == SelectSeq(lines, LAMBDA l :
                         l.kind = "sample" /\ l.name = "http_requests_total")
        IN  /\ Len(lines) >= BaselineLen
            /\ [i \in 1..BaselineLen |-> <<lines[i].kind, lines[i].name>>]
                   = BaselineSkeleton
            /\ [i \in 1..Len(https) |-> https[i].labels] = HttpLabelSets
            /\ \A i \in 1..Len(lines) :
                   /\ i <= BaselineLen => lines[i].name \notin AzureNames
                   /\ (i > BaselineLen /\ lines[i].kind # "blank")
                          => lines[i].name \in AzureNames

\* an output that has a resource section after the baseline, and whose
\* system_memory_used_bytes value is a draw that can print 4280387012
C4_Witness ==
    /\ Served("generate_prometheus_metrics")
    /\ Len(response.lines) > BaselineLen
    /\ HasSample(response.lines, "azure_unknown_metric")
    /\ \E i \in 1..BaselineLen :
           /\ response.lines[i].kind = "sample"
           /\ response.lines[i].name = "system_memory_used_bytes"
           /\ Returns(response.lines[i].value, 4280, 387012)
           /\ Printed(response.lines[i].value, 4280, 387012) = "4280387012"

--------------------------------------------------------------------------
\* the entry contains c, p, u in a row, in either case
CaselessCpu(e) ==
    \E i \in 1..(Len(e) - 2) :
        /\ e[i] \in {99, 67}          \* c, C
        /\ e[i + 1] \in {112, 80}     \* p, P
        /\ e[i + 2] \in {117, 85}     \* u, U

\* the metric name the ordered rules give a trimmed entry
ExpectedName(e) ==
    IF e = <<97, 118, 103, 95, 99, 112, 117, 95, 112, 101, 114, 99, 101, 110, 116>>  \* "avg_cpu_percent"
        THEN "azure_sql_avg_cpu_percent"
    ELSE IF e = <<118, 105, 114, 116, 117, 97, 108, 95, 99, 111, 114, 101, 95, 99, 111, 117, 110, 116>>  \* "virtual_core_count"
        THEN "azure_sql_virtual_core_count"
    ELSE IF e = <<109, 101, 109, 111, 114, 121, 95, 117, 115, 97, 103, 101, 95, 112, 101, 114, 99, 101, 110, 116>>  \* "memory_usage_percent"
        THEN "azure_sql_memory_usage_percent"
    ELSE IF CaselessCpu(e) THEN "azure_vm_cpu_percent"
    ELSE "azure_unknown_metric"

\* the lines of the i-th per-metric block of a full output
BlockAt(lines, i) ==
    SubSeq(lines, BaselineLen + 4 * (i - 1) + 1, BaselineLen + 4 * i)

\* the block is HELP, TYPE, one sample, blank line, all of one metric name
WellFormedBlock(block) ==
    /\ block[1].kind = "HELP" /\ block[2].kind = "TYPE"
    /\ block[3].kind = "sample" /\ block[4].kind = "blank"
    /\ block[1].name = block[3].name /\ block[2].name = block[3].name
    /\ block[2].mtype = "gauge"

KeySet(line) == {line.labels[i][1] : i \in 1..Len(line.labels)}

\* C5: the block of every trimmed metric entry has the shape the first
\* matching rule gives: avg_cpu_percent, virtual_core_count and
\* memory_usage_percent exactly give their azure_sql_ family with labels
\* subscription, resource_type, aggregation, interval; otherwise an entry
\* containing cpu in any case gives azure_vm_cpu_percent, and any other
\* gives azure_unknown_metric, both with the extra label metric_name equal
\* to the trimmed entry.
C5_ShapeByFirstMatch ==
    (Served("generate_prometheus_metrics") /\ AllRequired(request.query)) =>
        LET lines == response.lines
            entries == split(request.query.metric.val, 44)
        IN  \A i \in 1..Len(entries) :
                /\ Len(lines) >= BaselineLen + 4 * i
                /\ LET e == strip(entries[i])
                       block == BlockAt(lines, i)
                       s == block[3]
                   IN  /\ WellFormedBlock(block)
                       /\ s.name = ExpectedName(e)
                       /\ Len(s.labels) = Cardinality(KeySet(s))
                       /\ s.name \in {"azure_sql_avg_cpu_percent",
                                      "azure_sql_virtual_core_count",
                                      "azure_sql_memory_usage_percent"}
                              => KeySet(s) = {"subscription", "resource_type",
                                              "aggregation", "interval"}
                       /\ s.name \in {"azure_vm_cpu_percent", "azure_unknown_metric"}
                              => /\ KeySet(s) = {"subscription", "resource_type",
                                                 "metric_name", "aggregation",
                                                 "interval"}
                                 /\ LabelValue(s, "metric_name") = e
                       /\ LabelValue(s, "subscription") = request.query.subscription.val
                       /\ LabelValue(s, "aggregation") = Str(request.query.aggregation)
                       /\ LabelValue(s, "interval") = Str(request.query.interval)

\* memory_usage_percent, padded with a form feed, a space and a no-break
\* space, took the exact rule, and avg_cpu_percent in capitals took the CPU
\* rule, in one output
C5_Witness ==
    /\ Served("generate_prometheus_metrics")
    /\ AllRequired(request.query)
    /\ \E i, j \in 1..Len(split(request.query.metric.val, 44)) :
           LET entries == split(request.query.metric.val, 44)
           IN  /\ entries[i] = <<12, 32, 109, 101, 109, 111, 114, 121, 95, 117, 115, 97, 103, 101, 95, 112, 101, 114, 99, 101, 110, 116, 160>>  \* "\x0c memory_usage_percent\xa0"
               /\ entries[j] = <<65, 86, 71, 95, 67, 80, 85, 95, 80, 69, 82, 67, 69, 78, 84>>  \* "AVG_CPU_PERCENT"
               /\ BlockAt(response.lines, i)[3].name = "azure_sql_memory_usage_percent"
               /\ BlockAt(response.lines, j)[3].name = "azure_vm_cpu_percent"

--------------------------------------------------------------------------
SqlNeedle == <<77, 105, 99, 114, 111, 115, 111, 102, 116, 46, 83, 113, 108, 47, 109, 97, 110, 97, 103, 101, 100, 73, 110, 115, 116, 97, 110, 99, 101, 115>>  \* "Microsoft.Sql/managedInstances"
VmNeedle == <<77, 105, 99, 114, 111, 115, 111, 102, 116, 46, 67, 111, 109, 112, 117, 116, 101, 47, 118, 105, 114, 116, 117, 97, 108, 77, 97, 99, 104, 105, 110, 101, 115>>  \* "Microsoft.Compute/virtualMachines"
StorageNeedle == <<77, 105, 99, 114, 111, 115, 111, 102, 116, 46, 83, 116, 111, 114, 97, 103, 101, 47, 115, 116, 111, 114, 97, 103, 101, 65, 99, 99, 111, 117, 110, 116, 115>>  \* "Microsoft.Storage/storageAccounts"

\* hay holds needle at some position
Within(needle, hay) ==
    \E i \in 0..(Len(hay) - Len(needle)) :
        \A k \in 1..Len(needle) : hay[i + k] = needle[k]

\* C6: in a full output every per-metric sample line carries the same
\* resource_type: sql_managed_instance if target contains
\* Microsoft.Sql/managedInstances; else virtual_machine if it contains
\* Microsoft.Compute/virtualMachines; else storage_account if it contains
\* Microsoft.Storage/storageAccounts; else unknown.
C6_ResourceTypePriority ==
    (Served("generate_prometheus_metrics") /\ AllRequired(request.query)) =>
        LET t == request.query.target.val
            isSql == Within(SqlNeedle, t)
            isVm == Within(VmNeedle, t)
            isStorage == Within(StorageNeedle, t)
        IN  /\ \E i \in 1..Len(response.lines) :
                   response.lines[i].name \in PerMetricNames
            /\ \A i \in 1..Len(response.lines) :
                 (response.lines[i].kind = "sample"
                    /\ response.lines[i].name \in PerMetricNames) =>
                 LET rt == LabelValue(response.lines[i], "resource_type")
                 IN  /\ isSql => rt = <<115, 113, 108, 95, 109, 97, 110, 97, 103, 101, 100, 95, 105, 110, 115, 116, 97, 110, 99, 101>>  \* "sql_managed_instance"
                     /\ (~isSql /\ isVm) =>
                            rt = <<118, 105, 114, 116, 117, 97, 108, 95, 109, 97, 99, 104, 105, 110, 101>>  \* "virtual_machine"
                     /\ (~isSql /\ ~isVm /\ isStorage) =>
                            rt = <<115, 116, 111, 114, 97, 103, 101, 95, 97, 99, 99, 111, 117, 110, 116>>  \* "storage_account"
                     /\ (~isSql /\ ~isVm /\ ~isStorage) =>
                            rt = <<117, 110, 107, 110, 111, 119, 110>>  \* "unknown"

\* a target that contains the virtual-machine substring first and the SQL
\* one after it was labelled sql_managed_instance
C6_Witness ==
    /\ Served("generate_prometheus_metrics")
    /\ AllRequired(request.query)
    /\ Within(VmNeedle, request.query.target.val)
    /\ Within(SqlNeedle, request.query.target.val)
    /\ \E i \in 1..Len(response.lines) :
           /\ response.lines[i].name \in PerMetricNames
           /\ response.lines[i].kind = "sample"
           /\ LabelValue(response.lines[i], "resource_type")
                  = <<115, 113, 108, 95, 109, 97, 110, 97, 103, 101, 100, 95, 105, 110, 115, 116, 97, 110, 99, 101>>  \* "sql_managed_instance"

--------------------------------------------------------------------------
\* the number of commas (U+002C) in s
Commas(s) == Cardinality({i \in 1..Len(s) : s[i] = 44})

\* C7: a full output has, after the baseline, one block per comma-separated
\* entry of metric (n commas give n+1 blocks) in input order, duplicates
\* and entries empty after trimming included, and then, as its last two
\* families, azure_exporter_scrape_duration_seconds and
\* azure_exporter_scrape_success (value 1), once each, labelled by
\* subscription alone.
C7_OneBlockPerEntry ==
    (Served("generate_prometheus_metrics") /\ AllRequired(request.query)) =>
        LET lines == response.lines
            m == request.query.metric.val
            n == Commas(m) + 1
            entries == split(m, 44)
            tail == SubSeq(lines, BaselineLen + 4 * n + 1, Len(lines))
            sub == <<<<"subscription", request.query.subscription.val>>>>
        IN  /\ Len(entries) = n
            /\ Len(lines) = BaselineLen + 4 * n + 8
            /\ \A i \in 1..n :
                   /\ WellFormedBlock(BlockAt(lines, i))
                   /\ BlockAt(lines, i)[3].name = ExpectedName(strip(entries[i]))
            /\ Len(HelpNames(lines)) = Len(BaselineFamilies) + n + 2
            /\ [i \in 1..8 |-> <<tail[i].kind, tail[i].name>>] =
                   <<<<"HELP", "azure_exporter_scrape_duration_seconds">>,
                     <<"TYPE", "azure_exporter_scrape_duration_seconds">>,
                     <<"sample", "azure_exporter_scrape_duration_seconds">>,
                     <<"blank", "">>,
                     <<"HELP", "azure_exporter_scrape_success">>,
                     <<"TYPE", "azure_exporter_scrape_success">>,
                     <<"sample", "azure_exporter_scrape_success">>,
                     <<"blank", "">>>>
            /\ tail[3].labels = sub
            /\ tail[7].labels = sub
            /\ tail[7].value = Literal("1")
            /\ \A i \in 1..(Len(lines) - 8) : lines[i].name \notin MetadataNames

\* a metric of two entries that are both empty after trimming (a space
\* with a line tabulation, and nothing)
\* gave two blocks of the same shape, followed by the metadata
C7_Witness ==
    /\ Served("generate_prometheus_metrics")
    /\ AllRequired(request.query)
    /\ request.query.metric.val = <<32, 11, 44>>  \* " \x0b,"
    /\ Len(response.lines) = BaselineLen + 16
    /\ BlockAt(response.lines, 1)[3].name = "azure_unknown_metric"
    /\ BlockAt(response.lines, 2)[3].name = "azure_unknown_metric"
    /\ LabelValue(BlockAt(response.lines, 1)[3], "metric_name") = <<>>
    /\ LabelValue(BlockAt(response.lines, 2)[3], "metric_name") = <<>>

--------------------------------------------------------------------------
FiveParameters(q) == <<q.subscription, q.target, q.metric, q.interval, q.aggregation>>

\* C8 as stated: parameter_count of /debug/params is the number of the five
\* parameters that are non-empty, an empty-string parameter not being
\* counted, and required_params_present is true exactly when subscription,
\* target and metric are all non-empty.
C8_CountsNonEmpty ==
    Served("debug_params") =>
        LET body == response.json[1]
            ps == FiveParameters(request.query)
        IN  /\ body.parameter_count = Cardinality({i \in 1..5 : NonEmpty(ps[i])})
            /\ body.required_params_present = AllRequired(request.query)

\* C8 amended: parameter_count of /debug/params is the number of the five
\* parameters that were supplied, an empty-string parameter being counted
\* like any other supplied value and only an absent one not being counted;
\* required_params_present is true exactly when subscription, target and
\* metric are all non-empty.
C8_CountsSupplied ==
    Served("debug_params") =>
        LET body == response.json[1]
            ps == FiveParameters(request.query)
        IN  /\ response.kind = "json"
            /\ body.parameter_count = Cardinality({i \in 1..5 : ps[i] # None})
            /\ body.required_params_present = AllRequired(request.query)
            /\ body.received_parameters = request.query

\* subscription supplied as the empty string, the other four absent: the
\* count is 1 and the required parameters are not present
C8_Witness ==
    /\ Served("debug_params")
    /\ request.query.subscription = Some(<<>>)
    /\ request.query.target = None /\ request.query.metric = None
    /\ request.query.interval = None /\ request.query.aggregation = None
    /\ response.json[1].parameter_count = 1
    /\ ~response.json[1].required_params_present

--------------------------------------------------------------------------
\* C9: a response has the same structure (the same HELP and TYPE lines, the
\* same sample names, label names and label values in the same order; only
\* sample values and timestamps blanked) as any earlier response to a
\* request of the same route and parameters, whatever was served between.
C9_SameShape ==
    (saved.taken /\ saved.request = request) => saved.shape = Shape(response)

\* a full resource-probe output compared with the output of the same
\* request served at an earlier clock value; its system_cpu_usage value is
\* a draw that can print 20.75 as well as 86.48
C9_Witness ==
    /\ saved.taken
    /\ saved.request = request
    /\ saved.at < now
    /\ Served("azure_metrics")
    /\ AllRequired(request.query)
    /\ \E i \in 1..Len(response.lines) :
           /\ response.lines[i].name = "system_cpu_usage"
           /\ response.lines[i].kind = "sample"
           /\ response.lines[i].ts = now
           /\ Returns(response.lines[i].value, 2075, 0)
           /\ Returns(response.lines[i].value, 8648, 0)
           /\ Printed(response.lines[i].value, 2075, 0) = "20.75"
           /\ Printed(response.lines[i].value, 8648, 0) = "86.48"

--------------------------------------------------------------------------
\* the sample line of the given name in the error block
ErrorSample(name) ==
    response.lines[CHOOSE i \in 1..Len(response.lines) :
                       response.lines[i].kind = "sample"
                           /\ response.lines[i].name = name]

\* C10: in the error block of /probe/metrics/resource azure_exporter_error
\* has value 1 and azure_exporter_request_info value 0; target_provided and
\* has_target are "True" iff target is non-empty (else "False"), and
\* metric_provided and has_metric likewise for metric; the subscription
\* label is the supplied value when non-empty, else missing on the error
\* line and none on the info line; interval and aggregation are echoed as
\* supplied, PT1M and average standing for an absent one; and the block
\* never shows a supplied subscription with both flags "True".
C10_ErrorLabels ==
    (Served("azure_metrics") /\ HasSample(response.lines, "azure_exporter_error")) =>
        LET q == request.query
            err == ErrorSample("azure_exporter_error")
            info == ErrorSample("azure_exporter_request_info")
            flag(x) == IF NonEmpty(x) THEN <<84, 114, 117, 101>>  \* "True"
                       ELSE <<70, 97, 108, 115, 101>>  \* "False"
        IN  /\ HasSample(response.lines, "azure_exporter_request_info")
            /\ err.value = Literal("1")
            /\ info.value = Literal("0")
            /\ LabelKeys(err) = <<"reason", "subscription",
                                  "target_provided", "metric_provided">>
            /\ LabelKeys(info) = <<"subscription", "has_target", "has_metric",
                                   "interval", "aggregation">>
            /\ LabelValue(err, "target_provided") = flag(q.target)
            /\ LabelValue(info, "has_target") = flag(q.target)
            /\ LabelValue(err, "metric_provided") = flag(q.metric)
            /\ LabelValue(info, "has_metric") = flag(q.metric)
            /\ LabelValue(err, "subscription") =
                   IF NonEmpty(q.subscription) THEN q.subscription.val
                   ELSE <<109, 105, 115, 115, 105, 110, 103>>  \* "missing"
            /\ LabelValue(info, "subscription") =
                   IF NonEmpty(q.subscription) THEN q.subscription.val
                   ELSE <<110, 111, 110, 101>>  \* "none"
            /\ LabelValue(info, "interval") =
                   IF q.interval = None THEN <<80, 84, 49, 77>> ELSE q.interval.val  \* "PT1M"
            /\ LabelValue(info, "aggregation") =
                   IF q.aggregation = None THEN <<97, 118, 101, 114, 97, 103, 101>>  \* "average"
                   ELSE q.aggregation.val
            /\ ~(/\ NonEmpty(q.subscription)
                 /\ LabelValue(err, "target_provided") = <<84, 114, 117, 101>>  \* "True"
                 /\ LabelValue(err, "metric_provided") = <<84, 114, 117, 101>>)  \* "True"

\* an error block for a request with no subscription, an empty target, a
\* metric, no interval and an empty aggregation
C10_Witness ==
    /\ Served("azure_metrics")
    /\ request.query.subscription = None
    /\ request.query.target = Some(<<>>)
    /\ NonEmpty(request.query.metric)
    /\ request.query.interval = None
    /\ request.query.aggregation = Some(<<>>)
    /\ HasSample(response.lines, "azure_exporter_error")
    /\ LabelValue(ErrorSample("azure_exporter_request_info"), "interval")
           = <<80, 84, 49, 77>>  \* "PT1M"
    /\ LabelValue(ErrorSample("azure_exporter_request_info"), "aggregation") = <<>>
    /\ LabelValue(ErrorSample("azure_exporter_error"), "metric_provided")
           = <<84, 114, 117, 101>>  \* "True"

====
